---- MODULE Spec2Model ----
(***************************************************************************)
(* Model of the DataTable component (src/src/Components/DataTable/         *)
(* DataTable.tsx): the filter -> sort -> paginate pipeline, the React      *)
(* state of the component (selectedRows, sortState, searchQuery,           *)
(* currentPage), its event handlers and the onRowSelect observer; and of   *)
(* the InputField component (src/src/Components/InputField/                *)
(* InputField.tsx): its props, its two hooks and its event handlers.       *)
(***************************************************************************)
EXTENDS Integers, Sequences, FiniteSets, TLC

VARIABLES
    data,          \* prop `data`: the host's row array
    pageSize,      \* prop `pageSize`: 0 models an absent pageSize (both are falsy)
    selectedRows,  \* useState: Set of row keys
    sortState,     \* useState: { key, order }
    searchQuery,   \* useState: the search text
    currentPage,   \* useState: the page cursor
    emitted,       \* the onRowSelect calls made by the last handler, in order
    lastOp,        \* the last event handled: [op, checked]
    pipe,          \* one evaluation of the useMemo chain: the stage reached,
                   \* its inputs, the collection it took and the one it returned
    inputField     \* an InputField: its props, its useState hooks (showPassword,
                   \* isFocused) and the onChange calls made by the last handler

vars == <<data, pageSize, selectedRows, sortState, searchQuery, currentPage, emitted, lastOp, pipe, inputField>>

-----------------------------------------------------------------------------
(* Bounds *)

MaxRows == 4
MaxPageSize == 2
MaxLen == 3

-----------------------------------------------------------------------------
(* JavaScript values: null, strings (sequences of characters), numbers *)

NULL == "null"

NullV == [t |-> "null", s |-> <<>>, n |-> 0]
Str(s) == [t |-> "str", s |-> s, n |-> 0]
Num(n) == [t |-> "num", s |-> <<>>, n |-> n]

Min(a, b) == IF a < b THEN a ELSE b
Max(a, b) == IF a > b THEN a ELSE b

Digits == <<"0", "1", "2", "3", "4", "5", "6", "7", "8", "9">>

\* Math.ceil(a / b) for a >= 0, b > 0
Ceil(a, b) == (a + b - 1) \div b

RECURSIVE numToString(_)
\* String(n) for a non-negative integer
numToString(n) ==
    IF n < 10 THEN <<Digits[n + 1]>>
    ELSE numToString(n \div 10) \o <<Digits[(n % 10) + 1]>>

\* String(value)
String(v) ==
    CASE v.t = "str" -> v.s
      [] v.t = "num" -> numToString(v.n)
      [] OTHER -> <<"n", "u", "l", "l">>

lowerChar(c) ==
    CASE c = "A" -> "a" [] c = "B" -> "b" [] c = "C" -> "c" [] c = "D" -> "d"
      [] c = "E" -> "e" [] OTHER -> c

\* String.prototype.toLowerCase
toLowerCase(s) == [i \in 1..Len(s) |-> lowerChar(s[i])]

\* includes that only looks at the start of the text
includes_atStart(s, q) == Len(q) <= Len(s) /\ SubSeq(s, 1, Len(q)) = q

\* String.prototype.includes
includes(s, q) ==
    \E i \in 0..(Len(s) - Len(q)) : SubSeq(s, i + 1, i + Len(q)) = q

-----------------------------------------------------------------------------
(* Props *)

rowKey == "id"
selectable == TRUE
showSearch == TRUE
loading == FALSE

columns == <<
    [key |-> "name", dataIndex |-> "name", sortable |-> TRUE],
    [key |-> "age",  dataIndex |-> "age",  sortable |-> TRUE],
    [key |-> "role", dataIndex |-> "role", sortable |-> FALSE] >>

Row(id, name, age, role) == [id |-> id, name |-> name, age |-> age, role |-> role]

\* The row objects the host owns.  A data array holds references to row
\* objects; a reference is the object's position in this table.
\* 1..5: rows with unique numeric ids
\* 6..10: rows with missing and duplicated ids, null and mixed-type cells
Objects == <<
    Row(Num(1), Str(<<"B", "o", "b">>), Num(30),      Str(<<"a", "d">>)),
    Row(Num(2), Str(<<"A", "m", "y">>), Num(25),      Str(<<"e", "d">>)),
    Row(Num(3), Str(<<"C", "a", "l">>), Num(30),      Str(<<"e", "d">>)),
    Row(Num(4), Str(<<"a", "b", "e">>), NullV,        Str(<<"a", "d">>)),
    Row(Num(5), Str(<<"D", "e", "b">>), Num(7),       NullV),
    Row(NullV,  Str(<<"E", "d">>),      Num(12),      Str(<<"a", "d">>)),
    Row(NullV,  Str(<<"b", "o">>),      Str(<<"9">>), Str(<<"e", "d">>)),
    Row(Num(1), NullV,                  NullV,        Str(<<"a", "d">>)),
    Row(Num(1), Str(<<"a", "b", "e">>), Str(<<"a">>), NullV),
    Row(NullV,  NullV,                  Num(12),      Str(<<"e", "d">>)) >>

\* record[field]
get(record, field) == Objects[record][field]

Users == <<1, 2, 3, 4, 5>>
Loose == <<6, 7, 8, 9, 10>>

Take(s, n) == SubSeq(s, 1, Min(n, Len(s)))

\* the data arrays the host may supply
Datasets == {Take(Users, n) : n \in {0, 3, MaxRows}} \cup {Take(Loose, MaxRows)}

\* the texts the user may type in the search box
Queries == {<<>>, <<"b">>, <<"E", "D">>}

PageSizes == 0..MaxPageSize

-----------------------------------------------------------------------------
(* Value comparison as the sort comparator uses it *)

\* collation order of the characters in use: digits, then letters regardless of case
CollationOrder == Digits \o <<"a", "b", "c", "d", "e", "l", "m", "n", "o", "u", "y">>

rank(c) == CHOOSE i \in 1..Len(CollationOrder) : CollationOrder[i] = lowerChar(c)

isUpper(c) == lowerChar(c) # c

RECURSIVE primaryCompare(_, _, _)
\* first level of the collation: letters compared regardless of case, a prefix sorts first
primaryCompare(a, b, i) ==
    IF i > Len(a) /\ i > Len(b) THEN 0
    ELSE IF i > Len(a) THEN -1
    ELSE IF i > Len(b) THEN 1
    ELSE IF rank(a[i]) < rank(b[i]) THEN -1
    ELSE IF rank(a[i]) > rank(b[i]) THEN 1
    ELSE primaryCompare(a, b, i + 1)

RECURSIVE caseCompare(_, _, _)
\* last level of the collation: at the first case difference, lower case sorts first
caseCompare(a, b, i) ==
    IF i > Len(a) THEN 0
    ELSE IF isUpper(a[i]) = isUpper(b[i]) THEN caseCompare(a, b, i + 1)
    ELSE IF isUpper(b[i]) THEN -1 ELSE 1

\* the first level decides unless it is a tie
firstNonZero(p, q) == IF p # 0 THEN p ELSE q

\* String.prototype.localeCompare
localeCompare(a, b) == firstNonZero(primaryCompare(a, b, 1), caseCompare(a, b, 1))

isNumeric(s) == \A i \in 1..Len(s) : \E d \in 1..10 : Digits[d] = s[i]

RECURSIVE parseDigits(_, _)
parseDigits(s, acc) ==
    IF s = <<>> THEN acc
    ELSE parseDigits(Tail(s), acc * 10 + (CHOOSE d \in 0..9 : Digits[d + 1] = Head(s)))

NaN == -1

\* ToNumber of a non-null value; NaN for a text that is not a number
toNumber(v) ==
    IF v.t = "num" THEN v.n
    ELSE IF isNumeric(v.s) THEN parseDigits(v.s, 0) ELSE NaN

\* x < y for two numbers; false when either is NaN
numLess(x, y) == x # NaN /\ y # NaN /\ x < y

\* a < b for two non-null values that are not both strings
lessThan(a, b) == numLess(toNumber(a), toNumber(b))

\* the comparison result handed back as is, whatever the direction
directed_asIs(c, order) == c

\* order === 'asc' ? c : -c
directed(c, order) == IF order = "asc" THEN c ELSE -c

\* the comparator with null taken as greater than every value
compareValues_nullsLast(aVal, bVal, order) ==
    IF aVal.t = "null" THEN directed(1, order)
    ELSE IF bVal.t = "null" THEN directed(-1, order)
    ELSE IF aVal.t = "str" /\ bVal.t = "str" THEN directed(localeCompare(aVal.s, bVal.s), order)
    ELSE IF lessThan(aVal, bVal) THEN directed(-1, order)
    ELSE IF lessThan(bVal, aVal) THEN directed(1, order)
    ELSE 0

\* the comparator on the two cell values
compareValues(aVal, bVal, order) ==
    IF aVal.t = "null" THEN directed(-1, order)
    ELSE IF bVal.t = "null" THEN directed(1, order)
    ELSE IF aVal.t = "str" /\ bVal.t = "str" THEN directed(localeCompare(aVal.s, bVal.s), order)
    ELSE IF lessThan(aVal, bVal) THEN directed(-1, order)
    ELSE IF lessThan(bVal, aVal) THEN directed(1, order)
    ELSE 0

\* compare with the sort direction left out: every sort is ascending
compare_ignoresOrder(a, b, column, order) ==
    compareValues(get(a, column.dataIndex), get(b, column.dataIndex), "asc")

\* the comparator handed to Array.prototype.sort
compare(a, b, column, order) ==
    compareValues(get(a, column.dataIndex), get(b, column.dataIndex), order)

-----------------------------------------------------------------------------
(* Array.prototype.sort as the JavaScript engine runs it on a short array:   *)
(* the leading run is found (and reversed when strictly descending), the     *)
(* remaining elements are placed by binary insertion.                        *)

Reverse(s) == [i \in 1..Len(s) |-> s[Len(s) + 1 - i]]

RECURSIVE runEnd(_, _, _, _, _)
\* length of the leading run of arr; idx is the next position to look at
runEnd(arr, idx, isDescending, column, order) ==
    IF idx > Len(arr) THEN idx - 1
    ELSE IF isDescending = (compare(arr[idx], arr[idx - 1], column, order) >= 0) THEN idx - 1
    ELSE runEnd(arr, idx + 1, isDescending, column, order)

RECURSIVE binarySearch(_, _, _, _, _, _)
\* the position (number of elements before it) at which pivot is inserted
binarySearch(arr, pivot, left, right, column, order) ==
    IF left >= right THEN left
    ELSE IF compare(pivot, arr[left + ((right - left) \div 2) + 1], column, order) < 0
         THEN binarySearch(arr, pivot, left, left + ((right - left) \div 2), column, order)
         ELSE binarySearch(arr, pivot, left + ((right - left) \div 2) + 1, right, column, order)

\* arr with the element after the first `start` elements moved to position pos
insertAt(arr, start, pos) ==
    SubSeq(arr, 1, pos) \o <<arr[start + 1]>> \o SubSeq(arr, pos + 1, start)
        \o SubSeq(arr, start + 2, Len(arr))

RECURSIVE binaryInsertionSort(_, _, _, _)
\* arr[1..start] is sorted; insert the elements after it one by one
binaryInsertionSort(arr, start, column, order) ==
    IF start >= Len(arr) THEN arr
    ELSE binaryInsertionSort(
            insertAt(arr, start, binarySearch(arr, arr[start + 1], 0, start, column, order)),
            start + 1, column, order)

\* the leading run of runLength elements, reversed when it is descending
makeRun(rows, isDescending, runLength) ==
    (IF isDescending THEN Reverse(SubSeq(rows, 1, runLength)) ELSE SubSeq(rows, 1, runLength))
        \o SubSeq(rows, runLength + 1, Len(rows))

\* the run is made, the elements after it are inserted
sortFromRun(rows, isDescending, runLength, column, order) ==
    binaryInsertionSort(makeRun(rows, isDescending, runLength), runLength, column, order)

\* the first two elements tell the direction of the leading run
sortWithRun(rows, isDescending, column, order) ==
    sortFromRun(rows, isDescending, runEnd(rows, 3, isDescending, column, order), column, order)

\* [...rows].sort(comparator)
sort(rows, column, order) ==
    IF Len(rows) < 2 THEN rows
    ELSE sortWithRun(rows, compare(rows[2], rows[1], column, order) < 0, column, order)

-----------------------------------------------------------------------------
(* The pipeline, as functions of their inputs *)

\* getRowKey; index is the zero-based position the caller passes
getRowKey(record, index) ==
    IF get(record, rowKey).t = "null" THEN Num(index) ELSE get(record, rowKey)

\* the row predicate with columns.every in place of columns.some
matchesQuery_every(record, q, cols) ==
    \A c \in 1..Len(cols) :
        includes(toLowerCase(String(get(record, cols[c].dataIndex))), toLowerCase(q))

\* the predicate handed to data.filter: columns.some(...)
matchesQuery(record, q, cols) ==
    \E c \in 1..Len(cols) :
        includes(toLowerCase(String(get(record, cols[c].dataIndex))), toLowerCase(q))

\* filteredData without the early return on an empty query
filterData_noShortcut(d, q, cols) ==
    SelectSeq(d, LAMBDA record : matchesQuery(record, q, cols))

\* the filteredData memo
filterData(d, q, cols) ==
    IF q = <<>> THEN d
    ELSE SelectSeq(d, LAMBDA record : matchesQuery(record, q, cols))

\* sortedData that orders by the first column when no sort is active
sortData_defaultSort(rows, st, cols) ==
    IF (st.key = NULL \/ st.order = NULL) /\ cols = <<>> THEN rows
    ELSE IF st.key = NULL \/ st.order = NULL THEN sort(rows, cols[1], "asc")
    ELSE IF ~\E c \in 1..Len(cols) : cols[c].key = st.key THEN rows
    ELSE sort(rows, cols[CHOOSE c \in 1..Len(cols) : cols[c].key = st.key], st.order)

\* the sortedData memo
sortData(rows, st, cols) ==
    IF st.key = NULL \/ st.order = NULL THEN rows
    ELSE IF ~\E c \in 1..Len(cols) : cols[c].key = st.key THEN rows
    ELSE LET column == cols[CHOOSE c \in 1..Len(cols) :
                               cols[c].key = st.key
                               /\ \A c2 \in 1..(c - 1) : cols[c2].key # st.key]
         IN sort(rows, column, st.order)

\* Array.prototype.slice(start, end) with 0 <= start <= end
slice(rows, start, end) == SubSeq(rows, start + 1, Min(end, Len(rows)))

\* paginate whose window starts at page * pageSize
paginate_fromPage(rows, page, size) ==
    IF size = 0 THEN rows
    ELSE LET startIndex == page * size
         IN slice(rows, startIndex, startIndex + size)

\* the paginatedData memo
paginate(rows, page, size) ==
    IF size = 0 THEN rows
    ELSE LET startIndex == (page - 1) * size
         IN slice(rows, startIndex, startIndex + size)

\* totalPages rounded down
pageCount_floor(rows, size) == IF size # 0 THEN Len(rows) \div size ELSE 1

\* totalPages
pageCount(rows, size) == IF size # 0 THEN Ceil(Len(rows), size) ELSE 1

-----------------------------------------------------------------------------
(* The derived values of one render *)

\* every value sortState may hold
SortStates == [key : {columns[c].key : c \in 1..Len(columns)} \cup {NULL}, order : {"asc", "desc", NULL}]

\* The two useMemo caches, tabulated over the inputs they are keyed on
\* (columns is fixed); @@ makes TLC build each table once.
filteredMemo == [d \in Datasets, q \in Queries |-> filterData(d, q, columns)] @@ <<>>
sortedMemo ==
    [d \in Datasets, q \in Queries, st \in SortStates |->
        sortData(filteredMemo[d, q], st, columns)] @@ <<>>

filteredData == filteredMemo[data, searchQuery]
sortedData == sortedMemo[data, searchQuery, sortState]
paginatedData == paginate(sortedData, currentPage, pageSize)

\* the keys of the rendered rows: each row's key at its position in the window
pageKeys(rows) == {getRowKey(rows[i], i - 1) : i \in 1..Len(rows)}

\* the row checkbox at window position i (1-based) is checked
isSelected(i) == getRowKey(paginatedData[i], i - 1) \in selectedRows

\* isAllSelected that holds as soon as one rendered row is selected
isAllSelected_some ==
    Len(paginatedData) > 0
    /\ \E i \in 1..Len(paginatedData) : getRowKey(paginatedData[i], i - 1) \in selectedRows

isAllSelected ==
    Len(paginatedData) > 0
    /\ \A i \in 1..Len(paginatedData) : getRowKey(paginatedData[i], i - 1) \in selectedRows

isIndeterminate == Cardinality(selectedRows) > 0 /\ ~isAllSelected

totalPages == pageCount(sortedData, pageSize)
startItem == IF pageSize # 0 THEN (currentPage - 1) * pageSize + 1 ELSE 1
endItem == IF pageSize # 0 THEN Min(currentPage * pageSize, Len(sortedData)) ELSE Len(sortedData)

\* the pagination footer is rendered
footerShown == pageSize # 0 /\ totalPages > 1

\* the table body that shows the empty state also while loading
tableBody_emptyFirst(isLoading, rows) ==
    IF Len(rows) = 0 THEN "empty" ELSE IF isLoading THEN "loading" ELSE "rows"

\* what the table body shows: loading ? ... : paginatedData.length === 0 ? ... : rows
tableBody(isLoading, rows) ==
    IF isLoading THEN "loading" ELSE IF Len(rows) = 0 THEN "empty" ELSE "rows"

\* the rows with checkboxes are rendered
rowsShown == ~loading /\ Len(paginatedData) > 0

\* selectedData taken from the rendered window instead of the data array
selectedData_window(d, sel) ==
    LET idxs == {i \in 1..Len(paginatedData) : getRowKey(paginatedData[i], i - 1) \in sel}
        RECURSIVE pick(_)
        pick(i) == IF i > Len(paginatedData) THEN <<>>
                   ELSE (IF i \in idxs THEN <<paginatedData[i]>> ELSE <<>>) \o pick(i + 1)
    IN pick(1)

\* data.filter((item, idx) => newSelected.has(getRowKey(item, idx)))
selectedData(d, sel) ==
    LET idxs == {i \in 1..Len(d) : getRowKey(d[i], i - 1) \in sel}
        RECURSIVE pick(_)
        pick(i) == IF i > Len(d) THEN <<>>
                   ELSE (IF i \in idxs THEN <<d[i]>> ELSE <<>>) \o pick(i + 1)
    IN pick(1)

-----------------------------------------------------------------------------
(* The InputField component (src/src/Components/InputField/InputField.tsx) *)

\* the props of an InputField that the model varies, and its two hooks
Field(type, value, disabled, isLoading, showClearButton, onChange, showPassword, isFocused, changes, text) ==
    [type |-> type, value |-> value, disabled |-> disabled, loading |-> isLoading,
     showClearButton |-> showClearButton, onChange |-> onChange,
     showPassword |-> showPassword, isFocused |-> isFocused, changes |-> changes,
     text |-> text]

\* the props id, invalid, errorMessage and helperText; "" is an absent (or
\* empty, equally falsy) string
TextProps ==
    [id : {"", "email"}, invalid : BOOLEAN, errorMessage : {"", "Required"},
     helperText : {"", "Hint"}]

NoText == [id |-> "", invalid |-> FALSE, errorMessage |-> "", helperText |-> ""]

FieldTypes == {"text", "password", "email"}
FieldValues == {<<>>, <<"a">>}

\* the props a host can pass; onChange is TRUE when a callback is given
FieldProps ==
    [type : FieldTypes, value : FieldValues, disabled : BOOLEAN, loading : BOOLEAN,
     showClearButton : BOOLEAN, onChange : BOOLEAN]

\* the defaults of the destructured props, the hooks at their initial values
Unmounted == Field("text", <<>>, FALSE, FALSE, FALSE, FALSE, FALSE, FALSE, <<>>, NoText)

isPassword == inputField.type = "password"
inputType == IF isPassword /\ inputField.showPassword THEN "text" ELSE inputField.type
hasValue == Len(inputField.value) > 0

\* hasError that looks at the error message only
hasError_messageOnly == inputField.text.errorMessage # ""

hasError == inputField.text.invalid \/ inputField.text.errorMessage # ""

Undefined == "undefined"

\* aria-invalid of the native input
ariaInvalid == hasError

\* aria-describedby of the native input
ariaDescribedBy ==
    IF inputField.text.id # ""
    THEN IF hasError THEN inputField.text.id \o "-error"
         ELSE IF inputField.text.helperText # "" THEN inputField.text.id \o "-helper"
         ELSE Undefined
    ELSE Undefined

\* the helper / error block is rendered
helpBlockShown == inputField.text.helperText # "" \/ inputField.text.errorMessage # ""

\* the id of the helper / error block
helpBlockId ==
    IF hasError /\ inputField.text.id # "" THEN inputField.text.id \o "-error"
    ELSE IF inputField.text.id # "" /\ inputField.text.helperText # ""
         THEN inputField.text.id \o "-helper"
    ELSE Undefined

\* disabled attribute of the native input
inputDisabled == inputField.disabled \/ inputField.loading

\* the clear button with the loading test left out
clearButtonShown_whileLoading == inputField.showClearButton /\ hasValue /\ ~inputField.disabled

\* the clear button is rendered
clearButtonShown == ~inputField.loading /\ inputField.showClearButton /\ hasValue /\ ~inputField.disabled

\* the password toggle is rendered
toggleShown == ~inputField.loading /\ isPassword

\* aria-label of the password toggle
toggleLabel == IF inputField.showPassword THEN "Hide password" ELSE "Show password"

-----------------------------------------------------------------------------
(* State machine *)

\* arg: the column, page or row position the event is about, 0 when it has none
Op(name, checked, arg) == [op |-> name, checked |-> checked, arg |-> arg]

\* one step of the useMemo chain; a field a stage does not use is left empty
Stage(name, cols, q, st, page, size, input, output) ==
    [stage |-> name, cols |-> cols, q |-> q, st |-> st, page |-> page,
     size |-> size, input |-> input, output |-> output,
     loading |-> FALSE, body |-> "none"]

\* the event-driven specification does not single-step the chain
Idle == Stage("idle", <<>>, <<>>, [key |-> NULL, order |-> NULL], 1, 0, <<>>, <<>>)

Init ==
    /\ data \in Datasets
    /\ pageSize \in PageSizes
    /\ selectedRows = {}
    /\ sortState = [key |-> NULL, order |-> NULL]
    /\ searchQuery = <<>>
    /\ currentPage = 1
    /\ emitted = <<>>
    /\ lastOp = Op("init", FALSE, 0)
    /\ pipe = Idle
    /\ inputField = Unmounted

\* the host passes a new data array; the component state is kept
SetData(d) ==
    /\ d # data
    /\ data' = d
    /\ emitted' = <<>>
    /\ lastOp' = Op("setData", FALSE, 0)
    /\ UNCHANGED <<inputField, pipe, pageSize, selectedRows, sortState, searchQuery, currentPage>>

\* SetSearchQuery that also drops the selection
SetSearchQuery_clearsSelection(q) ==
    /\ showSearch
    /\ q # searchQuery
    /\ searchQuery' = q
    /\ selectedRows' = {}
    /\ emitted' = <<>>
    /\ lastOp' = Op("search", FALSE, 0)
    /\ UNCHANGED <<inputField, pipe, data, pageSize, sortState, currentPage>>

\* the search input's onChange
SetSearchQuery(q) ==
    /\ showSearch
    /\ q # searchQuery
    /\ searchQuery' = q
    /\ emitted' = <<>>
    /\ lastOp' = Op("search", FALSE, 0)
    /\ UNCHANGED <<inputField, pipe, data, pageSize, selectedRows, sortState, currentPage>>

\* nextSortState that never returns to the unsorted state
nextSortState_noReset(prev, column) ==
    IF prev.key # column.key THEN [key |-> column.key, order |-> "asc"]
    ELSE IF prev.order = "asc" THEN [key |-> column.key, order |-> "desc"]
    ELSE [key |-> column.key, order |-> "asc"]

\* the next sort state after a click on a sortable column
nextSortState(prev, column) ==
    IF prev.key # column.key THEN [key |-> column.key, order |-> "asc"]
    ELSE IF prev.order = "asc" THEN [key |-> column.key, order |-> "desc"]
    ELSE [key |-> NULL, order |-> NULL]

\* a header click that sorts by any column, sortable or not
sortAfterClick_anyColumn(prev, column) ==
    nextSortState(prev, column)

\* the sort state after a click on a column header: the header's onClick and
\* handleSort both return early for a column that is not sortable
sortAfterClick(prev, column) ==
    IF column.sortable THEN nextSortState(prev, column) ELSE prev

\* handleSort that also goes back to the first page
handleSort_resetsPage(c) ==
    /\ sortState' = sortAfterClick(sortState, columns[c])
    /\ currentPage' = 1
    /\ emitted' = <<>>
    /\ lastOp' = Op("sort", FALSE, c)
    /\ UNCHANGED <<inputField, pipe, data, pageSize, selectedRows, searchQuery>>

\* a click on the header of column c
handleSort(c) ==
    /\ sortState' = sortAfterClick(sortState, columns[c])
    /\ emitted' = <<>>
    /\ lastOp' = Op("sort", FALSE, c)
    /\ UNCHANGED <<inputField, pipe, data, pageSize, selectedRows, searchQuery, currentPage>>

\* a click on Previous; the button is disabled on page 1
Previous ==
    /\ footerShown
    /\ currentPage' = IF currentPage = 1 THEN currentPage ELSE Max(currentPage - 1, 1)
    /\ emitted' = <<>>
    /\ lastOp' = Op("previous", FALSE, 0)
    /\ UNCHANGED <<inputField, pipe, data, pageSize, selectedRows, sortState, searchQuery>>

\* a click on Next; the button is disabled on the page numbered totalPages
NextPage ==
    /\ footerShown
    /\ currentPage' = IF currentPage = totalPages THEN currentPage
                      ELSE Min(currentPage + 1, totalPages)
    /\ emitted' = <<>>
    /\ lastOp' = Op("next", FALSE, 0)
    /\ UNCHANGED <<inputField, pipe, data, pageSize, selectedRows, sortState, searchQuery>>

\* a page button that also reports the selection to the observer
JumpToPage_notifies(page) ==
    /\ footerShown
    /\ page \in 1..Min(totalPages, 5)
    /\ currentPage' = page
    /\ emitted' = <<selectedData(data, selectedRows)>>
    /\ lastOp' = Op("jump", FALSE, page)
    /\ UNCHANGED <<inputField, pipe, data, pageSize, selectedRows, sortState, searchQuery>>

\* a click on one of the numbered page buttons
JumpToPage(page) ==
    /\ footerShown
    /\ page \in 1..Min(totalPages, 5)
    /\ currentPage' = page
    /\ emitted' = <<>>
    /\ lastOp' = Op("jump", FALSE, page)
    /\ UNCHANGED <<inputField, pipe, data, pageSize, selectedRows, sortState, searchQuery>>

\* a click on the checkbox of the i-th rendered row
handleRowSelect(i) ==
    /\ selectable /\ rowsShown
    /\ i \in 1..Len(paginatedData)
    /\ LET record == paginatedData[i]
           key == getRowKey(record, i - 1)
           checked == ~(key \in selectedRows)
           newSelected == IF checked THEN selectedRows \cup {key} ELSE selectedRows \ {key}
       IN /\ selectedRows' = newSelected
          /\ emitted' = <<selectedData(data, newSelected)>>
          /\ lastOp' = Op("toggleRow", checked, i)
    /\ UNCHANGED <<inputField, pipe, data, pageSize, sortState, searchQuery, currentPage>>

\* the selection after the header checkbox is checked
selectAllKeys(selected, rows) == pageKeys(rows)

\* selectAllRows that hands over the whole data array
selectAllRows_data(d, selected, rows) == d

\* the list handed to onRowSelect when the header checkbox is checked
selectAllRows(d, selected, rows) == rows

\* deselectAllKeys that removes only the keys of the rendered window
deselectAllKeys_pageOnly(selected, rows) == selected \ pageKeys(rows)

\* the selection after the header checkbox is unchecked
deselectAllKeys(selected, rows) == {}

\* a click on the header checkbox
handleSelectAll ==
    /\ selectable
    /\ LET checked == ~isAllSelected
       IN /\ selectedRows' = IF checked THEN selectAllKeys(selectedRows, paginatedData)
                            ELSE deselectAllKeys(selectedRows, paginatedData)
          /\ emitted' = IF checked THEN <<selectAllRows(data, selectedRows, paginatedData)>>
                        ELSE << <<>> >>
          /\ lastOp' = Op("selectAll", checked, 0)
    /\ UNCHANGED <<inputField, pipe, data, pageSize, sortState, searchQuery, currentPage>>

\* "Clear selection" that empties the set without calling onRowSelect
ClearSelection_silent ==
    /\ selectable /\ Cardinality(selectedRows) > 0
    /\ selectedRows' = {}
    /\ emitted' = <<>>
    /\ lastOp' = Op("clear", FALSE, 0)
    /\ UNCHANGED <<inputField, pipe, data, pageSize, sortState, searchQuery, currentPage>>

\* a click on "Clear selection"
ClearSelection ==
    /\ selectable /\ Cardinality(selectedRows) > 0
    /\ selectedRows' = {}
    /\ emitted' = << <<>> >>
    /\ lastOp' = Op("clear", FALSE, 0)
    /\ UNCHANGED <<inputField, pipe, data, pageSize, sortState, searchQuery, currentPage>>

Next ==
    \/ \E d \in Datasets : SetData(d)
    \/ \E q \in Queries : SetSearchQuery(q)
    \/ \E c \in 1..Len(columns) : handleSort(c)
    \/ Previous
    \/ NextPage
    \/ \E page \in 1..5 : JumpToPage(page)
    \/ \E i \in 1..MaxRows : handleRowSelect(i)
    \/ handleSelectAll
    \/ ClearSelection

Spec == Init /\ [][Next]_vars

TypeOK ==
    /\ data \in Datasets
    /\ pageSize \in PageSizes
    /\ searchQuery \in Queries
    /\ currentPage \in 1..5
    /\ Len(emitted) <= 1

-----------------------------------------------------------------------------
(* The useMemo chain taken one stage at a time, over every short row array *)

\* rows with equal names, equal ages, null cells and ages of mixed type
PipeObjects == {1, 3, 4, 7, 8, 9}

RECURSIVE Arrays(_)
\* the arrays of at most n distinct rows
Arrays(n) ==
    IF n = 0 THEN {<<>>}
    ELSE Arrays(n - 1) \cup
         {Append(s, o) : s \in {x \in Arrays(n - 1) : Len(x) = n - 1},
                         o \in PipeObjects}

PipeDatasets == {s \in Arrays(MaxLen) : \A i, j \in 1..Len(s) : s[i] = s[j] => i = j}
PipeQueries == Queries \cup {<<"n", "u">>, <<"3">>}
ColumnLists == {<<>>, columns, <<columns[3]>>}
PipeSortStates == {st \in SortStates : (st.key = NULL) = (st.order = NULL) /\ st.key # "role"}
PipePages == 1..(MaxLen + 1)

PipeInit ==
    /\ data \in PipeDatasets
    /\ pageSize = 0
    /\ selectedRows = {}
    /\ sortState = [key |-> NULL, order |-> NULL]
    /\ searchQuery = <<>>
    /\ currentPage = 1
    /\ emitted = <<>>
    /\ lastOp = Op("init", FALSE, 0)
    /\ pipe = Stage("data", <<>>, <<>>, sortState, 1, 0, <<>>, data)
    /\ inputField = Unmounted

Unrendered == <<data, pageSize, selectedRows, sortState, searchQuery, currentPage, emitted, lastOp, inputField>>

\* filteredData that collects the kept rows last to first
Filter_reversed(q, cols) ==
    /\ pipe.stage = "data"
    /\ pipe' = Stage("filtered", cols, q, pipe.st, 1, 0, pipe.output,
                     Reverse(filterData(pipe.output, q, cols)))
    /\ UNCHANGED Unrendered

\* useMemo filteredData
Filter(q, cols) ==
    /\ pipe.stage = "data"
    /\ pipe' = Stage("filtered", cols, q, pipe.st, 1, 0, pipe.output,
                     filterData(pipe.output, q, cols))
    /\ UNCHANGED Unrendered

\* sortedData that sorts filteredData itself instead of a copy of it: with an
\* empty query filteredData is the host's array
Sort_inPlace(st) ==
    /\ pipe.stage = "filtered"
    /\ pipe' = Stage("sorted", pipe.cols, <<>>, st, 1, 0, pipe.output,
                     sortData(pipe.output, st, pipe.cols))
    /\ data' = IF pipe.q = <<>> THEN sortData(pipe.output, st, pipe.cols) ELSE data
    /\ UNCHANGED <<pageSize, selectedRows, sortState, searchQuery, currentPage,
                   emitted, lastOp, inputField>>

\* useMemo sortedData
Sort(st) ==
    /\ pipe.stage = "filtered"
    /\ pipe' = Stage("sorted", pipe.cols, <<>>, st, 1, 0, pipe.output,
                     sortData(pipe.output, st, pipe.cols))
    /\ UNCHANGED Unrendered

\* useMemo sortedData evaluated again on its own result
SortAgain ==
    /\ pipe.stage = "sorted"
    /\ pipe' = Stage("resorted", pipe.cols, <<>>, pipe.st, 1, 0, pipe.output,
                     sortData(pipe.output, pipe.st, pipe.cols))
    /\ UNCHANGED Unrendered

\* useMemo paginatedData
Paginate(page, size) ==
    /\ pipe.stage = "sorted"
    /\ pipe' = Stage("paginated", <<>>, <<>>, [key |-> NULL, order |-> NULL],
                     page, size, pipe.output, paginate(pipe.output, page, size))
    /\ UNCHANGED Unrendered

\* the table body rendered over the window, with the loading prop as given
Render(isLoading) ==
    /\ pipe.stage = "paginated"
    /\ pipe' = [pipe EXCEPT !.stage = "rendered", !.loading = isLoading,
                            !.body = tableBody(isLoading, pipe.output)]
    /\ UNCHANGED Unrendered

PipeNext ==
    \/ \E q \in PipeQueries, cols \in ColumnLists : Filter(q, cols)
    \/ \E st \in PipeSortStates : Sort(st)
    \/ SortAgain
    \/ \E page \in PipePages, size \in PageSizes : Paginate(page, size)
    \/ \E isLoading \in BOOLEAN : Render(isLoading)

PipeSpec == PipeInit /\ [][PipeNext]_vars

PipeTypeOK ==
    /\ pipe.stage \in {"data", "filtered", "sorted", "resorted", "paginated", "rendered"}
    /\ pipe.body \in {"none", "loading", "empty", "rows"}
    /\ \A i \in 1..Len(pipe.output) : pipe.output[i] \in PipeObjects

-----------------------------------------------------------------------------
(* The InputField state machine: the host's props, clicks, typing and focus *)

InputInit ==
    /\ data = <<>>
    /\ pageSize = 0
    /\ selectedRows = {}
    /\ sortState = [key |-> NULL, order |-> NULL]
    /\ searchQuery = <<>>
    /\ currentPage = 1
    /\ emitted = <<>>
    /\ lastOp = Op("init", FALSE, 0)
    /\ pipe = Idle
    /\ \E p \in FieldProps, t \in TextProps :
         inputField = Field(p.type, p.value, p.disabled, p.loading, p.showClearButton,
                            p.onChange, FALSE, FALSE, <<>>, t)

NoTable == <<data, pageSize, selectedRows, sortState, searchQuery, currentPage, emitted, pipe>>

\* the host renders the field again with other props; the hooks keep their state
SetProps(p) ==
    /\ p # [type |-> inputField.type, value |-> inputField.value,
            disabled |-> inputField.disabled, loading |-> inputField.loading,
            showClearButton |-> inputField.showClearButton, onChange |-> inputField.onChange]
    /\ inputField' = Field(p.type, p.value, p.disabled, p.loading, p.showClearButton,
                           p.onChange, inputField.showPassword, inputField.isFocused, <<>>,
                           inputField.text)
    /\ lastOp' = Op("props", FALSE, 0)
    /\ UNCHANGED NoTable

\* the host renders the field again with another id, invalid flag, error
\* message or helper text
SetTextProps(t) ==
    /\ t # inputField.text
    /\ inputField' = [inputField EXCEPT !.text = t, !.changes = <<>>]
    /\ lastOp' = Op("textProps", FALSE, 0)
    /\ UNCHANGED NoTable

\* the toggle that shows the password and never hides it again
togglePasswordVisibility_showOnly ==
    /\ toggleShown /\ ~inputField.disabled
    /\ inputField' = [inputField EXCEPT !.showPassword = TRUE, !.changes = <<>>]
    /\ lastOp' = Op("toggle", FALSE, 0)
    /\ UNCHANGED NoTable

\* a click on the password toggle; the button is disabled with the field
togglePasswordVisibility ==
    /\ toggleShown /\ ~inputField.disabled
    /\ inputField' = [inputField EXCEPT !.showPassword = ~inputField.showPassword,
                                        !.changes = <<>>]
    /\ lastOp' = Op("toggle", FALSE, 0)
    /\ UNCHANGED NoTable

\* handleClear that hands the current value to onChange
handleClear_keepsValue ==
    /\ clearButtonShown
    /\ inputField' = [inputField EXCEPT
                        !.changes = IF inputField.onChange THEN <<inputField.value>> ELSE <<>>]
    /\ lastOp' = Op("clearInput", FALSE, 0)
    /\ UNCHANGED NoTable

\* a click on the clear button
handleClear ==
    /\ clearButtonShown
    /\ inputField' = [inputField EXCEPT
                        !.changes = IF inputField.onChange THEN << <<>> >> ELSE <<>>]
    /\ lastOp' = Op("clearInput", FALSE, 0)
    /\ UNCHANGED NoTable

\* the user edits the text to v: the native change event goes to onChange
Type(v) ==
    /\ ~inputDisabled
    /\ v # inputField.value
    /\ inputField' = [inputField EXCEPT
                        !.changes = IF inputField.onChange THEN <<v>> ELSE <<>>]
    /\ lastOp' = Op("type", FALSE, 0)
    /\ UNCHANGED NoTable

\* onFocus
Focus ==
    /\ ~inputDisabled /\ ~inputField.isFocused
    /\ inputField' = [inputField EXCEPT !.isFocused = TRUE, !.changes = <<>>]
    /\ lastOp' = Op("focus", FALSE, 0)
    /\ UNCHANGED NoTable

\* onBlur
Blur ==
    /\ inputField.isFocused
    /\ inputField' = [inputField EXCEPT !.isFocused = FALSE, !.changes = <<>>]
    /\ lastOp' = Op("blur", FALSE, 0)
    /\ UNCHANGED NoTable

InputNext ==
    \/ \E p \in FieldProps : SetProps(p)
    \/ \E t \in TextProps : SetTextProps(t)
    \/ togglePasswordVisibility
    \/ handleClear
    \/ \E v \in FieldValues : Type(v)
    \/ Focus
    \/ Blur

InputSpec == InputInit /\ [][InputNext]_vars

InputTypeOK ==
    /\ inputField.type \in FieldTypes
    /\ inputField.value \in FieldValues
    /\ Len(inputField.changes) <= 1

-----------------------------------------------------------------------------
(* Properties *)

NoSort == [key |-> NULL, order |-> NULL]

SelectionOps == {"toggleRow", "selectAll", "clear"}
PipelineOps == {"search", "sort", "previous", "next", "jump"}
NavigationOps == {"previous", "next", "jump"}

\* e lists exactly the rows of d whose key (taken at the row's position in d)
\* is in sel, in the order of d
IsSelectedList(e, d, sel) ==
    LET pos == {i \in 1..Len(d) : getRowKey(d[i], i - 1) \in sel}
    IN /\ Len(e) = Cardinality(pos)
       /\ \A k \in 1..Len(e) :
            \E i \in pos : e[k] = d[i] /\ Cardinality({j \in pos : j < i}) = k - 1

\* b sorts strictly before a in ascending order: null before any value, texts
\* by collation, other values by <
sortsBefore(b, a) ==
    \/ b.t = "null" /\ a.t # "null"
    \/ b.t = "str" /\ a.t = "str" /\ localeCompare(b.s, a.s) < 0
    \/ b.t # "null" /\ a.t # "null" /\ ~(b.t = "str" /\ a.t = "str") /\ lessThan(b, a)

\* no row of rows is followed by a row that sorts strictly before it
Ascending(rows, field) ==
    \A i, j \in 1..Len(rows) : i < j => ~sortsBefore(get(rows[j], field), get(rows[i], field))

Descending(rows, field) ==
    \A i, j \in 1..Len(rows) : i < j => ~sortsBefore(get(rows[i], field), get(rows[j], field))

\* the field the active sort column reads
sortField == columns[CHOOSE c \in 1..Len(columns) : columns[c].key = sortState.key].dataIndex

\* every row of d carries a key of its own
HasUniqueKeys(d) ==
    /\ \A i \in 1..Len(d) : get(d[i], rowKey).t # "null"
    /\ \A i, j \in 1..Len(d) : i # j => get(d[i], rowKey) # get(d[j], rowKey)

\* k is the key of a row rendered on a page other than the current one
OnOtherPage(k) ==
    \E p \in 1..totalPages :
        p # currentPage /\ k \in pageKeys(paginate(sortedData, p, pageSize))

\* C1: checking the header checkbox adds the keys of the rendered window to
\* the selection and keeps the keys selected before that belong to rows of
\* other pages (stated for data arrays whose rows all carry a key of their own).
C1_SelectAllIsUnion ==
    [][(lastOp'.op = "selectAll" /\ lastOp'.checked /\ HasUniqueKeys(data))
        => /\ pageKeys(paginatedData) \subseteq selectedRows'
           /\ \A k \in selectedRows : OnOtherPage(k) => k \in selectedRows']_vars

\* C2: every selection mutation calls onRowSelect exactly once, with the rows
\* of the data array whose key is in the new selection, in data-array order
\* (stated for data arrays whose rows all carry a key of their own).
C2_EmitsFullSelection ==
    [][(lastOp'.op \in SelectionOps /\ HasUniqueKeys(data))
        => Len(emitted') = 1 /\ IsSelectedList(emitted'[1], data, selectedRows')]_vars

\* the sort state the cycle prescribes after a click on sortable column key a
CycleStep(prev, a) ==
    CASE prev = NoSort -> [key |-> a, order |-> "asc"]
      [] prev = [key |-> a, order |-> "asc"] -> [key |-> a, order |-> "desc"]
      [] prev = [key |-> a, order |-> "desc"] -> NoSort
      [] OTHER -> [key |-> a, order |-> "asc"]

\* C3: the sort state starts at (null, none) and every click on a sortable
\* header moves it along none -> asc -> desc -> none for the same column,
\* and to (B, asc) for a different column B.
C3_SortCycle ==
    /\ sortState = NoSort
    /\ [][\A c \in 1..Len(columns) :
            (lastOp'.op = "sort" /\ lastOp'.arg = c /\ columns[c].sortable)
                => sortState' = CycleStep(sortState, columns[c].key)]_vars

\* a click on a sortable header has just returned the sort state to (null, none)
C3_Witness ==
    /\ lastOp.op = "sort" /\ columns[lastOp.arg].sortable
    /\ sortState = NoSort

\* C4: under (A, asc) the rows are in ascending order of A, under (A, desc)
\* in descending order, and under (null, none) in the order of the data
\* array; [Bob, Amy, Cal] gives [Amy, Bob, Cal], [Cal, Bob, Amy], [Bob, Amy, Cal].
C4_SortOrders ==
    /\ sortState.order = "asc"
        => Ascending(sortedData, sortField) /\ Ascending(paginatedData, sortField)
    /\ sortState.order = "desc"
        => Descending(sortedData, sortField) /\ Descending(paginatedData, sortField)
    /\ sortState = NoSort => sortedData = filteredData
    /\ (data = <<1, 2, 3>> /\ searchQuery = <<>>)
        => /\ sortState = [key |-> "name", order |-> "asc"] => sortedData = <<2, 1, 3>>
           /\ sortState = [key |-> "name", order |-> "desc"] => sortedData = <<3, 1, 2>>
           /\ sortState = NoSort => sortedData = <<1, 2, 3>>

\* the second click on the name header of [Bob, Amy, Cal] has been handled
C4_Witness ==
    /\ data = <<1, 2, 3>> /\ searchQuery = <<>>
    /\ lastOp.op = "sort"
    /\ sortState = [key |-> "name", order |-> "desc"]
    /\ paginatedData = <<3, 1, 2>>

\* C5: a change of the search query, a header click and a page change leave
\* the selection set as it was.
C5_SelectionPersists ==
    [][lastOp'.op \in PipelineOps => selectedRows' = selectedRows]_vars

\* a selected row is filtered out by the query just typed, its key still selected
C5_Witness ==
    /\ lastOp.op = "search" /\ searchQuery # <<>>
    /\ \E i \in 1..Len(data) :
        /\ getRowKey(data[i], i - 1) \in selectedRows
        /\ get(data[i], rowKey).t # "null"
        /\ \A j \in 1..Len(filteredData) : filteredData[j] # data[i]

\* C6: a click on the checkbox of the row at window position i adds that
\* row's key when it checks the box and removes it when it unchecks it,
\* changes no other key, and emits the rows of the data array whose key is in
\* the resulting set, in data-array order.
C6_ToggleRow ==
    [][lastOp'.op = "toggleRow"
        => LET key == getRowKey(paginatedData[lastOp'.arg], lastOp'.arg - 1)
           IN /\ lastOp'.checked => selectedRows' = selectedRows \cup {key}
              /\ ~lastOp'.checked => selectedRows' = selectedRows \ {key}
              /\ emitted' = <<emitted'[1]>>
              /\ IsSelectedList(emitted'[1], data, selectedRows')]_vars

\* a row on a later page has been unchecked while rows of other pages stay
\* selected and are emitted
C6_Witness ==
    /\ lastOp.op = "toggleRow" /\ ~lastOp.checked
    /\ pageSize # 0 /\ currentPage > 1
    /\ selectedRows # {}
    /\ Len(emitted) = 1 /\ Len(emitted[1]) > 0
    /\ \A i \in 1..Len(emitted[1]) : \A j \in 1..Len(paginatedData) :
          emitted[1][i] # paginatedData[j]

\* C7: unchecking the header checkbox empties the whole selection set, keys
\* of rows outside the rendered window included, and emits the empty list.
C7_DeselectAllClearsAll ==
    [][(lastOp'.op = "selectAll" /\ ~lastOp'.checked)
        => selectedRows' = {} /\ emitted' = << <<>> >>]_vars

\* the header checkbox has been unchecked on a later page of a paginated table
C7_Witness ==
    /\ lastOp.op = "selectAll" /\ ~lastOp.checked
    /\ pageSize # 0 /\ currentPage > 1 /\ Len(paginatedData) > 0
    /\ selectedRows = {}
    /\ emitted = << <<>> >>

\* C8: with pagination enabled, currentPage is within 1..totalPages in every
\* reachable state (the page count taken as at least 1, as C10 has it).
C8_PageInRange == pageSize # 0 => currentPage \in 1..Max(totalPages, 1)

\* C9: Previous, Next and jump-to-page leave currentPage within 1..totalPages.
C9_NavigationInRange ==
    [][lastOp'.op \in NavigationOps => currentPage' \in 1..totalPages']_vars

\* C10: the page count is ceil(sortedLength / pageSize) and at least 1.
C10_TotalPagesAtLeastOne ==
    /\ pageSize # 0 => totalPages = Ceil(Len(sortedData), pageSize)
    /\ totalPages >= 1

-----------------------------------------------------------------------------
(* Properties of the pipeline stages, checked under PipeSpec *)

\* C11: with a page size, the window holds exactly the rows of the sorted
\* collection at the zero-based indices of
\* [(currentPage - 1) * pageSize, currentPage * pageSize) that exist in the
\* collection, in order; a page beyond the collection gives the empty window
C11_WindowIsSlice ==
    (pipe.stage = "paginated" /\ pipe.size # 0) =>
        LET first == (pipe.page - 1) * pipe.size
            inRange == {k \in first..(pipe.page * pipe.size - 1) : k < Len(pipe.input)}
        IN /\ Len(pipe.output) = Cardinality(inRange)
           /\ \A n \in 1..Len(pipe.output) : pipe.output[n] = pipe.input[first + n]
           /\ (first >= Len(pipe.input) => pipe.output = <<>>)

\* a last page cut short by the end of the collection
C11_Witness ==
    /\ pipe.stage = "paginated"
    /\ pipe.size # 0
    /\ pipe.page > 1
    /\ pipe.output # <<>>
    /\ Len(pipe.output) < pipe.size

RECURSIVE PagesFrom(_, _, _)
\* the windows of pages p..totalPages, one after the other
PagesFrom(rows, size, p) ==
    IF p > pageCount(rows, size) THEN <<>>
    ELSE paginate(rows, p, size) \o PagesFrom(rows, size, p + 1)

\* C12: the windows of pages 1..totalPages, concatenated in page order, are
\* exactly the sorted collection: no row missing, none twice, same order
C12_PagesCoverCollection ==
    pipe.stage = "paginated" => PagesFrom(pipe.input, pipe.size, 1) = pipe.input

\* several pages, the last one partly filled
C12_Witness ==
    /\ pipe.stage = "paginated"
    /\ pipe.size > 1
    /\ pageCount(pipe.input, pipe.size) > 1
    /\ Len(pipe.input) % pipe.size # 0
    /\ pipe.page = pageCount(pipe.input, pipe.size)

\* text t has the characters of q, in order and adjacent, from some position on
Contains(t, q) ==
    \E at \in 1..(Len(t) + 1) :
        \A k \in 1..Len(q) : at + k - 1 <= Len(t) /\ t[at + k - 1] = q[k]

\* the cell of row r at column c, as lowercased text, contains the lowercased q
CellMatches(r, c, q) ==
    Contains(toLowerCase(String(get(r, c.dataIndex))), toLowerCase(q))

\* every row of the filter's input is kept exactly when one of its cells matches
KeepsExactlyMatches ==
    \A i \in 1..Len(pipe.input) :
        (\E k \in 1..Len(pipe.output) : pipe.output[k] = pipe.input[i])
        <=> (\E c \in 1..Len(pipe.cols) : CellMatches(pipe.input[i], pipe.cols[c], pipe.q))

\* C13 as stated: for every dataset, column list and query, a row is in the
\* filter's result iff at least one column's value, as lowercased text,
\* contains the lowercased query.  With the empty query and the empty column
\* list the filter keeps every row although no column matches.
C13_FilterKeepsExactlyMatches ==
    pipe.stage = "filtered" => KeepsExactlyMatches

\* C13 amended: for every dataset, column list and query other than the empty
\* query together with the empty column list, a row is in the filter's result
\* iff at least one column's value, as lowercased text, contains the
\* lowercased query; every column takes part, sortable or not
C13_FilterKeepsExactlyMatches_Amended ==
    (pipe.stage = "filtered" /\ (pipe.q # <<>> \/ pipe.cols # <<>>)) => KeepsExactlyMatches

\* a query in capitals keeps a row through its non-sortable column alone and
\* drops another row
C13_Witness ==
    /\ pipe.stage = "filtered"
    /\ pipe.q # toLowerCase(pipe.q)
    /\ Len(pipe.output) < Len(pipe.input)
    /\ \E k \in 1..Len(pipe.output) :
         \A c \in 1..Len(pipe.cols) :
            CellMatches(pipe.output[k], pipe.cols[c], pipe.q) => ~pipe.cols[c].sortable

\* C14: with the empty query the filter returns the dataset itself, the same
\* rows in the same order, whatever the column list, the empty one included
C14_EmptyQueryIsIdentity ==
    (pipe.stage = "filtered" /\ pipe.q = <<>>) => pipe.output = pipe.input

\* the empty query over several rows and no column
C14_Witness ==
    /\ pipe.stage = "filtered"
    /\ pipe.q = <<>>
    /\ pipe.cols = <<>>
    /\ Len(pipe.input) > 1
    /\ pipe.output = data

\* e is d with some elements left out
IsSubsequence(e, d) ==
    \E f \in [1..Len(e) -> 1..Len(d)] :
        /\ \A k \in 1..Len(e) : e[k] = d[f[k]]
        /\ \A k \in 1..(Len(e) - 1) : f[k] < f[k + 1]

\* C15: the filter's result is a subsequence of the dataset: the kept rows
\* stand in the order they have in the dataset
C15_FilterKeepsOrder ==
    pipe.stage = "filtered" => IsSubsequence(pipe.output, pipe.input)

\* a query that drops a row standing between two rows it keeps
C15_Witness ==
    /\ pipe.stage = "filtered"
    /\ pipe.q # <<>>
    /\ Len(pipe.input) = 3
    /\ pipe.output = <<pipe.input[1], pipe.input[3]>>

\* the sort stage ran with a sort state that names a column of the list
ActiveSort ==
    /\ pipe.stage \in {"sorted", "resorted"}
    /\ pipe.st.key # NULL
    /\ pipe.st.order # NULL
    /\ \E c \in 1..Len(pipe.cols) : pipe.cols[c].key = pipe.st.key

\* the field the sort stage compared
pipeField ==
    pipe.cols[CHOOSE c \in 1..Len(pipe.cols) : pipe.cols[c].key = pipe.st.key].dataIndex

\* where row r stands in rows
PosIn(rows, r) == CHOOSE k \in 1..Len(rows) : rows[k] = r

\* rows i < j of the sort's input stand in the same order in its output
KeepOrder(i, j) ==
    PosIn(pipe.output, pipe.input[i]) < PosIn(pipe.output, pipe.input[j])

\* C16: under an active sort, two rows whose values in the sorted column are
\* equal, two null values included, keep the relative order they have in the
\* filtered input
C16_SortIsStable ==
    (ActiveSort /\ pipe.stage = "sorted") =>
        \A i, j \in 1..Len(pipe.input) :
            (i < j /\ get(pipe.input[i], pipeField) = get(pipe.input[j], pipeField))
                => KeepOrder(i, j)

\* the sorted cell of the row at position k of the sort's output is null
NullAt(k) == get(pipe.output[k], pipeField).t = "null"

\* C17: under an active sort the rows whose sorted cell is null stand before
\* all the other rows when ascending and after all of them when descending
C17_NullsAtTheEnds ==
    (ActiveSort /\ pipe.stage = "sorted") =>
        \A i, j \in 1..Len(pipe.output) :
            (NullAt(i) /\ ~NullAt(j)) =>
                /\ pipe.st.order = "asc" => i < j
                /\ pipe.st.order = "desc" => i > j

\* a descending sort that moves a null row from the front, past two rows, to
\* the back
C17_Witness ==
    /\ ActiveSort
    /\ pipe.stage = "sorted"
    /\ pipe.st.order = "desc"
    /\ Len(pipe.input) = 3
    /\ get(pipe.input[1], pipeField).t = "null"
    /\ ~NullAt(1) /\ ~NullAt(2) /\ NullAt(3)

\* the column the sort stage compared
pipeColumn == pipe.cols[CHOOSE c \in 1..Len(pipe.cols) : pipe.cols[c].key = pipe.st.key]

\* C18: for every pair of rows (a, b), null and mixed-type cells included,
\* the descending comparator returns the negation of what the ascending
\* comparator returns
C18_DescendingNegatesAscending ==
    ActiveSort =>
        \A i, j \in 1..Len(pipe.input) :
            compare(pipe.input[i], pipe.input[j], pipeColumn, "desc")
                = 0 - compare(pipe.input[i], pipe.input[j], pipeColumn, "asc")

\* a sort over a null cell, a text cell and a number cell, with a pair the
\* comparator orders
C18_Witness ==
    /\ ActiveSort
    /\ pipe.stage = "sorted"
    /\ {get(pipe.input[i], pipeField).t : i \in 1..Len(pipe.input)} = {"null", "str", "num"}
    /\ \E i, j \in 1..Len(pipe.input) :
         /\ get(pipe.input[i], pipeField).t = "str"
         /\ get(pipe.input[j], pipeField).t = "num"
         /\ compare(pipe.input[i], pipe.input[j], pipeColumn, pipe.st.order) # 0

\* how often row r occurs in rows
Occurrences(rows, r) == Cardinality({k \in 1..Len(rows) : rows[k] = r})

\* the same rows, each as often
SameMultiset(x, y) == \A r \in PipeObjects : Occurrences(x, r) = Occurrences(y, r)

\* C19: sorting ascending and reversing gives the same multiset of rows as
\* sorting descending, and the sort stage applied again, with the same column
\* and direction, to its own result returns that result unchanged
C19_SortRoundTripAndIdempotent ==
    ActiveSort =>
        /\ SameMultiset(Reverse(sortData(pipe.input, [key |-> pipe.st.key, order |-> "asc"], pipe.cols)),
                        sortData(pipe.input, [key |-> pipe.st.key, order |-> "desc"], pipe.cols))
        /\ pipe.stage = "resorted" => pipe.output = pipe.input

\* C20: when the two compared values are non-null and of different types (a
\* text and a number), the comparator returns 0 in both directions
C20_MixedTypesCompareEqual ==
    ActiveSort =>
        \A i, j \in 1..Len(pipe.input) :
            LET aVal == get(pipe.input[i], pipeField)
                bVal == get(pipe.input[j], pipeField)
            IN (aVal.t # "null" /\ bVal.t # "null" /\ aVal.t # bVal.t) =>
                   /\ compareValues(aVal, bVal, "asc") = 0
                   /\ compareValues(aVal, bVal, "desc") = 0

-----------------------------------------------------------------------------
(* Properties of the rendered table, checked under Spec *)

\* C21: in every reachable state, allSelected holds iff the rendered page is
\* not empty and every row on it is selected (its key is in the selection
\* set), and indeterminate holds iff the selection set is not empty and
\* allSelected is false
C21_DerivedPredicates ==
    /\ isAllSelected <=>
          (paginatedData # <<>> /\ \A i \in 1..Len(paginatedData) : isSelected(i))
    /\ isIndeterminate <=> (selectedRows # {} /\ ~isAllSelected)

\* a page of two rows, one of them selected: indeterminate, not all selected
C21_Witness ==
    /\ Len(paginatedData) = 2
    /\ isSelected(1)
    /\ ~isSelected(2)
    /\ isIndeterminate
    /\ ~isAllSelected

\* C22: "Clear selection" can be clicked in every state whose selection is
\* not empty; the click empties the selection set, emits the empty row list
\* once, and leaves the search query, the sort state and the current page as
\* they were
C22_ClearEmptiesSelection ==
    /\ [](selectedRows # {} => ENABLED ClearSelection)
    /\ [][lastOp'.op = "clear" =>
            /\ selectedRows # {}
            /\ selectedRows' = {}
            /\ emitted' = << <<>> >>
            /\ searchQuery' = searchQuery
            /\ sortState' = sortState
            /\ currentPage' = currentPage]_vars

\* the selection has been cleared on a later page of a searched, sorted table
C22_Witness ==
    /\ lastOp.op = "clear"
    /\ selectedRows = {}
    /\ emitted = << <<>> >>
    /\ searchQuery # <<>>
    /\ sortState.key # NULL
    /\ currentPage > 1

\* C23: a change of the search query or of the sort state leaves currentPage
\* as it was: the page cursor is not put back to 1
C23_FilterAndSortKeepPage ==
    [][lastOp'.op \in {"search", "sort"} => currentPage' = currentPage]_vars

\* the sort has just changed while the table shows a later page
C23_Witness ==
    /\ lastOp.op = "sort"
    /\ sortState.key # NULL
    /\ pageSize # 0
    /\ currentPage > 1
    /\ paginatedData # <<>>

\* row r has no value in the rowKey field
KeyMissing(r) == get(r, rowKey).t = "null"

\* another row of the dataset has the same value in the rowKey field as row r
KeyDuplicated(r) ==
    \E j \in 1..Len(data) : data[j] # r /\ get(data[j], rowKey) = get(r, rowKey)

\* C24: a rendered row whose key is missing, or is also the key of another
\* row of the dataset, is identified by its positional index
C24_FallbackToIndex ==
    \A i \in 1..Len(paginatedData) :
        (KeyMissing(paginatedData[i]) \/ KeyDuplicated(paginatedData[i]))
            => getRowKey(paginatedData[i], i - 1) = Num(i - 1)

\* C25: without a pageSize the rendered window is the whole sorted
\* collection, and checking the header checkbox then puts the key of every
\* row of that collection in the selection and emits exactly that collection
C25_SelectAllWithoutPaging ==
    /\ [](pageSize = 0 => paginatedData = sortedData)
    /\ [][(lastOp'.op = "selectAll" /\ lastOp'.checked /\ pageSize = 0) =>
            /\ \A i \in 1..Len(sortedData) :
                   getRowKey(sortedData[i], i - 1) \in selectedRows'
            /\ emitted' = <<sortedData>>]_vars

\* all rows of a searched and sorted table without paging have been selected
C25_Witness ==
    /\ lastOp.op = "selectAll" /\ lastOp.checked
    /\ pageSize = 0
    /\ searchQuery # <<>>
    /\ sortState.key # NULL
    /\ Len(sortedData) > 1
    /\ Len(sortedData) < Len(data)
    /\ sortedData # filteredData
    /\ emitted = <<sortedData>>

-----------------------------------------------------------------------------
(* Further properties of the pipeline stages, checked under PipeSpec *)

\* C26: with an empty dataset the filtered, the sorted and the paginated
\* result are the empty sequence for every query, sort state and page; with
\* an empty column list and a non-empty query the filter's result is the
\* empty sequence
C26_ZeroLengthInputs ==
    /\ data = <<>> => pipe.output = <<>>
    /\ (pipe.stage = "filtered" /\ pipe.cols = <<>> /\ pipe.q # <<>>) => pipe.output = <<>>

\* a non-empty query over several rows and no column
C26_Witness ==
    /\ pipe.stage = "filtered"
    /\ pipe.cols = <<>>
    /\ pipe.q # <<>>
    /\ Len(pipe.input) > 1
    /\ pipe.output = <<>>

\* C27: with a sort state that has no column key or no direction, the sort
\* stage returns the filtered collection as it is, in the same order
C27_NoSortIsIdentity ==
    pipe.stage = "sorted" =>
        /\ (pipe.st.key = NULL \/ pipe.st.order = NULL) => pipe.output = pipe.input
        /\ \A st \in SortStates :
               (st.key = NULL \/ st.order = NULL)
                   => sortData(pipe.input, st, pipe.cols) = pipe.input

\* the unsorted state over rows that a sort by the first column would reorder
C27_Witness ==
    /\ pipe.stage = "sorted"
    /\ pipe.st.key = NULL
    /\ pipe.cols = columns
    /\ Len(pipe.input) > 1
    /\ pipe.output = pipe.input
    /\ sort(pipe.input, columns[1], "asc") # pipe.input

\* C28: the table body shows the loading indicator whenever loading is true,
\* whatever the window holds; the empty state exactly when loading is false
\* and the window has no row; the rows otherwise.  It shows exactly one of
\* the three and there is no fourth display.
C28_TableBody ==
    pipe.stage = "rendered" =>
        /\ pipe.body \in {"loading", "empty", "rows"}
        /\ pipe.body = "loading" <=> pipe.loading
        /\ pipe.body = "empty" <=> (~pipe.loading /\ pipe.output = <<>>)
        /\ pipe.body = "rows" <=> (~pipe.loading /\ pipe.output # <<>>)

\* loading over an empty window: the loading indicator, not the empty state
C28_Witness ==
    /\ pipe.stage = "rendered"
    /\ pipe.loading
    /\ pipe.output = <<>>
    /\ pipe.body = "loading"

-----------------------------------------------------------------------------
(* Properties of the InputField, checked under InputSpec *)

\* C29: a field of type password is mounted with the rendered input type
\* "password"; each click on the toggle flips the rendered type between
\* "password" and "text"; the toggle's label is "Show password" exactly when
\* the value is hidden; for every other type the rendered input type is the
\* type prop
C29_PasswordVisibility ==
    /\ (isPassword => inputType = "password")
    /\ [][lastOp'.op = "toggle" =>
            /\ inputType \in {"password", "text"}
            /\ inputType' = (IF inputType = "password" THEN "text" ELSE "password")]_vars
    /\ [](toggleShown => (toggleLabel = "Show password" <=> inputType = "password"))
    /\ [](~isPassword => inputType = inputField.type)

\* the second click on the toggle has hidden the password again
C29_Witness ==
    /\ lastOp.op = "toggle"
    /\ isPassword
    /\ inputType = "password"
    /\ toggleLabel = "Show password"

\* C30: the clear button is rendered, and can be clicked, exactly when
\* showClearButton is set, the value is not empty and the field is neither
\* disabled nor loading; it is never there while the field is disabled or
\* loading
C30_ClearButtonAvailability ==
    LET wanted == /\ inputField.showClearButton
                  /\ inputField.value # <<>>
                  /\ ~inputField.disabled
                  /\ ~inputField.loading
    IN /\ clearButtonShown <=> wanted
       /\ (ENABLED handleClear) <=> wanted
       /\ (inputField.disabled \/ inputField.loading) => ~clearButtonShown

\* a field with a value and showClearButton has been put in the loading
\* state: no clear button
C30_Witness ==
    /\ lastOp.op = "props"
    /\ inputField.showClearButton
    /\ inputField.value # <<>>
    /\ ~inputField.disabled
    /\ inputField.loading
    /\ ~clearButtonShown

\* C31: a click on the clear button calls onChange (when the host gave one)
\* exactly once, with the empty string as the event's target value, and
\* changes neither showPassword nor the focus state nor the value prop
C31_ClearCallsOnChangeOnce ==
    [][lastOp'.op = "clearInput" =>
          /\ inputField.onChange => inputField'.changes = << <<>> >>
          /\ ~inputField.onChange => inputField'.changes = <<>>
          /\ inputField'.showPassword = inputField.showPassword
          /\ inputField'.isFocused = inputField.isFocused
          /\ inputField'.value = inputField.value]_vars

\* the clear button of a focused password field with its value shown has
\* been clicked
C31_Witness ==
    /\ lastOp.op = "clearInput"
    /\ inputField.changes = << <<>> >>
    /\ inputField.value # <<>>
    /\ inputField.showPassword
    /\ inputField.isFocused

\* C32: aria-invalid is true iff invalid is set or errorMessage is not
\* empty; with an id, aria-describedby is "<id>-error" in the error state,
\* else "<id>-helper" when there is a helper text, else absent; the native
\* input is disabled iff disabled or loading is set
C32_ErrorWiring ==
    LET t == inputField.text
        inError == t.invalid \/ t.errorMessage = "Required"
    IN /\ ariaInvalid <=> inError
       /\ t.id = "email" =>
            ariaDescribedBy = (IF inError THEN "email-error"
                               ELSE IF t.helperText = "Hint" THEN "email-helper"
                               ELSE Undefined)
       /\ inputDisabled <=> (inputField.disabled \/ inputField.loading)

\* a field with an id and a helper text has been marked invalid, without an
\* error message, while loading
C32_Witness ==
    /\ lastOp.op = "textProps"
    /\ inputField.text = [id |-> "email", invalid |-> TRUE, errorMessage |-> "",
                          helperText |-> "Hint"]
    /\ inputField.loading /\ ~inputField.disabled
    /\ ariaInvalid
    /\ ariaDescribedBy = "email-error"
    /\ inputDisabled

-----------------------------------------------------------------------------
(* Further properties of the table, checked under Spec *)

\* the positions of the dataset's rows whose key is in the selection set
SelectedPositions == {i \in 1..Len(data) : getRowKey(data[i], i - 1) \in selectedRows}

\* C33: the size of the selection set, which is the count shown to the user,
\* is the number of rows of the current dataset whose key is in the set, and
\* every key of the set is the key of a row of the current dataset, also
\* after the host has replaced the dataset (stated for datasets whose rows
\* all have a key of their own)
C33_SelectionCountsRows ==
    HasUniqueKeys(data) =>
        /\ Cardinality(selectedRows) = Cardinality(SelectedPositions)
        /\ \A k \in selectedRows :
               \E i \in 1..Len(data) : getRowKey(data[i], i - 1) = k

\* C34: after the checkbox of a rendered row has been checked, the list
\* emitted to the observer contains that very row and the row is displayed as
\* selected, on any page and under any sort or filter, also for rows without
\* a key field, whose key is their position
C34_CheckedRowIsEmitted ==
    [][(lastOp'.op = "toggleRow" /\ lastOp'.checked) =>
          /\ Len(emitted') = 1
          /\ \E k \in 1..Len(emitted'[1]) : emitted'[1][k] = paginatedData[lastOp'.arg]
          /\ getRowKey(paginatedData[lastOp'.arg], lastOp'.arg - 1) \in selectedRows']_vars

\* C35: whenever the pagination footer is displayed, its range satisfies
\* 1 <= startItem <= endItem <= number of sorted rows, and
\* endItem - startItem + 1 is the number of rows of the rendered window
C35_FooterRange ==
    footerShown =>
        /\ 1 <= startItem
        /\ startItem <= endItem
        /\ endItem <= Len(sortedData)
        /\ endItem - startItem + 1 = Len(paginatedData)

\* C36: onRowSelect is called by selection mutations only: a change of the
\* search query, a click on a sort header and a page navigation never call
\* it, and each of them changes its own piece of state alone (the query, the
\* sort state, the current page)
C36_OnlySelectionNotifies ==
    [][/\ emitted' # <<>> => lastOp'.op \in SelectionOps
       /\ lastOp'.op = "search" =>
            /\ emitted' = <<>>
            /\ UNCHANGED <<data, pageSize, selectedRows, sortState, currentPage>>
       /\ lastOp'.op = "sort" =>
            /\ emitted' = <<>>
            /\ UNCHANGED <<data, pageSize, selectedRows, searchQuery, currentPage>>
       /\ lastOp'.op \in NavigationOps =>
            /\ emitted' = <<>>
            /\ UNCHANGED <<data, pageSize, selectedRows, searchQuery, sortState>>]_vars

\* a page button has been clicked while rows are selected: no call
C36_Witness ==
    /\ lastOp.op = "jump"
    /\ currentPage > 1
    /\ selectedRows # {}
    /\ emitted = <<>>

\* C37: the sort state is always well formed: its key is null exactly when
\* its order is null, at most one column is the active sort column, and a key
\* that is set is the key of a sortable column; a click on the header of a
\* column that is not sortable changes neither the sort state nor anything else
C37_SortStateWellFormed ==
    /\ [](/\ sortState.key = NULL <=> sortState.order = NULL
          /\ sortState.order \in {NULL, "asc", "desc"}
          /\ Cardinality({c \in DOMAIN columns : columns[c].key = sortState.key}) <= 1
          /\ sortState.key # NULL =>
                \E c \in DOMAIN columns :
                    columns[c].sortable /\ columns[c].key = sortState.key)
    /\ [][(lastOp'.op = "sort" /\ ~columns[lastOp'.arg].sortable) =>
            /\ emitted' = <<>>
            /\ UNCHANGED <<data, pageSize, selectedRows, sortState,
                           searchQuery, currentPage>>]_vars

\* the header of the column that is not sortable has been clicked while the
\* table is sorted by another column
C37_Witness ==
    /\ lastOp.op = "sort"
    /\ ~columns[lastOp.arg].sortable
    /\ sortState.key # NULL
    /\ sortState.order = "desc"

-----------------------------------------------------------------------------
(* Further properties of the stage chain, checked under PipeSpec *)

\* C38: the views are computed from the current dataset: the filtered view is
\* the filter of the host's array, the sorted view holds the rows of the
\* filtered view, each as often (none lost, none duplicated), the window is a
\* slice of the sorted view, and no stage reorders or otherwise changes the
\* host's dataset array
C38_ViewsLeaveDataAlone ==
    /\ [](pipe.stage = "filtered" =>
            /\ pipe.input = data
            /\ pipe.output = filterData(data, pipe.q, pipe.cols))
    /\ [](pipe.stage = "sorted" =>
            /\ Len(pipe.output) = Len(pipe.input)
            /\ SameMultiset(pipe.output, pipe.input)
            /\ IsSubsequence(pipe.input, data))
    /\ [](pipe.stage = "paginated" => IsSubsequence(pipe.output, pipe.input))
    /\ [][data' = data]_vars

\* the host's three rows, unfiltered, have been sorted into another order
C38_Witness ==
    /\ ActiveSort
    /\ pipe.stage = "sorted"
    /\ Len(data) = MaxLen
    /\ pipe.input = data
    /\ pipe.output # data

-----------------------------------------------------------------------------
(* Further properties of the input field, checked under InputSpec *)

\* C39: whenever the native input carries an aria-describedby value, the
\* helper / error block is rendered and its id is exactly that value, for
\* every combination of id, invalid, errorMessage and helperText
C39_DescribedByIsRendered ==
    ariaDescribedBy # Undefined =>
        /\ helpBlockShown
        /\ helpBlockId = ariaDescribedBy

====
